---- MODULE Spec2Model ----
(***************************************************************************)
(* Runtime configuration and credential hot-reload coordinator of the     *)
(* dashboard API (app/api/dashboard.py), as wired by app/main.py.          *)
(*                                                                         *)
(* Strings are sequences of one-character strings; a JSON object inside a  *)
(* credential blob is one opaque character such as "{A}".  A JSON value of *)
(* a request body is a record [t, b, n, s]: its Python type t, and the     *)
(* boolean, the number (an int, or a float in tenths) or the string it is. *)
(***************************************************************************)
EXTENDS Integers, Sequences, FiniteSets, TLC

VARIABLES
    settings,                    \* app.config.settings: one value per setting
    vertex_config,               \* app.vertex.config: the secondary namespace
    VERTEX_EXPRESS_API_KEY_VAL,  \* app_config.VERTEX_EXPRESS_API_KEY_VAL
    credential_manager,          \* dashboard.py's global: "None" or "pool"
    pool,                        \* the CredentialManager's entries
    fallback_client,             \* the shared fallback client handle, or NoClient
    persisted,                   \* what save_settings() wrote last
    pc,                          \* where each request handler is
    req,                         \* the request each handler is serving
    status,                      \* the HTTP status each handler ended with
    events,                      \* the calls each handler has made so far
    building,                    \* the handle each handler's reinitialization has built
    nreq,                        \* requests received so far
    nbuilt,                      \* fallback clients built so far
    response_cache_manager,      \* dashboard.py's global: "None" or "cache"
    active_requests_manager,     \* dashboard.py's global: "None" or "active"
    api_stats_manager,           \* the statistics buckets, by age
    response_cache,              \* the cache manager's entries: live and expired
    active_requests,             \* the tracker's tasks: pending and done
    dash,                        \* the GET /dashboard-data handler
    reset,                       \* the POST /reset-stats handler
    nrec                         \* calls recorded so far

\* What update_config reads and writes
store == <<settings, vertex_config, VERTEX_EXPRESS_API_KEY_VAL, credential_manager,
           pool, fallback_client, persisted>>

\* The update_config handlers
handlers == <<pc, req, status, events, building, nbuilt>>

\* What the two telemetry endpoints read and write
telemetry == <<response_cache_manager, active_requests_manager, api_stats_manager,
               response_cache, active_requests, dash, reset, nrec>>

vars == <<settings, vertex_config, VERTEX_EXPRESS_API_KEY_VAL, credential_manager,
          pool, fallback_client, persisted, pc, req, status, events, building,
          nreq, nbuilt, response_cache_manager, active_requests_manager,
          api_stats_manager, response_cache, active_requests, dash, reset, nrec>>

(***************************************************************************)
(* Bounds.                                                                 *)
(***************************************************************************)
MaxRequests == 1
MaxCredRequests == 3
MaxDashRequests == 3
MaxRecords == 1

Handlers == {1, 2}

(***************************************************************************)
(* Python values and strings.                                              *)
(***************************************************************************)
JNull == [t |-> "null", b |-> FALSE, n |-> 0, s |-> <<>>]
JBool(x) == [t |-> "bool", b |-> x, n |-> 0, s |-> <<>>]
JInt(k) == [t |-> "int", b |-> FALSE, n |-> k, s |-> <<>>]
JFloat(tenths) == [t |-> "float", b |-> FALSE, n |-> tenths, s |-> <<>>]
\* The float that the JSON number -1e999 (or -Infinity) decodes to
JNegInf == [t |-> "neginf", b |-> FALSE, n |-> 0, s |-> <<>>]
JList == [t |-> "list", b |-> FALSE, n |-> 0, s |-> <<>>]
JStr(x) == [t |-> "str", b |-> FALSE, n |-> 0, s |-> x]

Digits == {"0", "1", "2"}

DigitVal(c) == CASE c = "0" -> 0 [] c = "1" -> 1 [] c = "2" -> 2

Lower(c) ==
    CASE c = "T" -> "t" [] c = "R" -> "r" [] c = "U" -> "u" [] c = "E" -> "e"
      [] OTHER -> c

StrLower(s) == [i \in DOMAIN s |-> Lower(s[i])]

RECURSIVE LStrip(_)
LStrip(s) == IF s # <<>> /\ Head(s) = " " THEN LStrip(Tail(s)) ELSE s

RECURSIVE RStrip(_)
RStrip(s) ==
    IF s # <<>> /\ s[Len(s)] = " " THEN RStrip(SubSeq(s, 1, Len(s) - 1)) ELSE s

Strip(s) == RStrip(LStrip(s))

RECURSIVE Split(_, _)
Split(s, sep) ==
    IF \E i \in DOMAIN s : s[i] = sep
    THEN LET i == CHOOSE j \in DOMAIN s : s[j] = sep /\ \A k \in 1..(j - 1) : s[k] # sep
         IN <<SubSeq(s, 1, i - 1)>> \o Split(SubSeq(s, i + 1, Len(s)), sep)
    ELSE <<s>>

RECURSIVE DigitsVal(_)
DigitsVal(s) ==
    IF s = <<>> THEN 0 ELSE 10 * DigitsVal(SubSeq(s, 1, Len(s) - 1)) + DigitVal(s[Len(s)])

IsDigits(s) == s # <<>> /\ \A i \in DOMAIN s : s[i] \in Digits

\* The text of an integer literal: optional sign, then digits.
IsIntText(s) ==
    \/ IsDigits(s)
    \/ s # <<>> /\ Head(s) \in {"-", "+"} /\ IsDigits(Tail(s))

IntTextVal(s) ==
    IF Head(s) = "-" THEN 0 - DigitsVal(Tail(s))
    ELSE IF Head(s) = "+" THEN DigitsVal(Tail(s))
    ELSE DigitsVal(s)

Raised(exc) == [exc |-> exc, v |-> 0]
Returned(v) == [exc |-> "none", v |-> v]

\* Truncation toward zero of a float given in tenths.
Trunc(tenths) == IF tenths >= 0 THEN tenths \div 10 ELSE 0 - ((0 - tenths) \div 10)

\* int(x)
PyInt(x) ==
    CASE x.t = "int" -> Returned(x.n)
      [] x.t = "bool" -> Returned(IF x.b THEN 1 ELSE 0)
      [] x.t = "float" -> Returned(Trunc(x.n))
      [] x.t = "neginf" -> Raised("OverflowError")
      [] x.t = "str" ->
            IF IsIntText(Strip(x.s)) THEN Returned(IntTextVal(Strip(x.s)))
            ELSE Raised("ValueError")
      [] OTHER -> Raised("TypeError")

\* float(x), in tenths; minus infinity is below every bound
PyFloat(x) ==
    CASE x.t = "int" -> Returned(10 * x.n)
      [] x.t = "bool" -> Returned(IF x.b THEN 10 ELSE 0)
      [] x.t = "float" -> Returned(x.n)
      [] x.t = "neginf" -> Returned(-1000)
      [] x.t = "str" ->
            IF IsIntText(Strip(x.s)) THEN Returned(10 * IntTextVal(Strip(x.s)))
            ELSE Raised("ValueError")
      [] OTHER -> Raised("TypeError")

\* bool(x): Python truthiness
PyTruthy(x) ==
    CASE x.t = "null" -> FALSE
      [] x.t = "bool" -> x.b
      [] x.t \in {"int", "float"} -> x.n # 0
      [] x.t = "str" -> x.s # <<>>
      [] OTHER -> TRUE

(***************************************************************************)
(* JSON and the credential pool.  The credential manager module is not     *)
(* part of the available sources: its operations follow the design         *)
(* document (credential entries tagged by provenance, selective reload).   *)
(***************************************************************************)
Objects == {"{A}", "{B}", "{C}"}

\* json.loads(s): a JSON object, a JSON number, or JSONDecodeError
JsonLoads(s) ==
    LET x == Strip(s) IN
    IF Len(x) = 1 /\ x[1] \in Objects THEN [exc |-> "none", kind |-> "object", v |-> x[1]]
    ELSE IF IsIntText(x) THEN [exc |-> "none", kind |-> "number", v |-> "0"]
    ELSE [exc |-> "JSONDecodeError", kind |-> "none", v |-> "0"]

\* parse_multiple_json_credentials(s): the objects of a comma-separated list of
\* JSON objects, in order; the empty list for any other text
parse_multiple_json_credentials(s) ==
    LET frags == Split(s, ",")
        objs == [i \in DOMAIN frags |-> Strip(frags[i])]
    IN IF Len(frags) >= 2 /\ \A i \in DOMAIN objs : Len(objs[i]) = 1 /\ objs[i][1] \in Objects
       THEN [i \in DOMAIN objs |-> objs[i][1]]
       ELSE <<>>

Entry(payload, provenance) == [payload |-> payload, provenance |-> provenance]

EnvEntries(p) == {e \in p : e.provenance = "EnvironmentBlob"}
OtherEntries(p) == {e \in p : e.provenance # "EnvironmentBlob"}

\* CredentialManager.clear_json_string_credentials()
clear_json_string_credentials(p) == OtherEntries(p)

\* CredentialManager.load_credentials_from_json_list(objs)
load_credentials_from_json_list(p, objs) ==
    p \cup {Entry(objs[i], "EnvironmentBlob") : i \in DOMAIN objs}

\* CredentialManager.add_credential_from_json(parsed): only a JSON object is a
\* credential
add_credential_from_json(p, parsed) ==
    IF parsed.kind = "object" THEN p \cup {Entry(parsed.v, "EnvironmentBlob")} ELSE p

\* CredentialManager.get_total_credentials()
get_total_credentials(p) == Cardinality(p)

NoClient == [id |-> 0, creds |-> {}]

\* reset_global_fallback_client(): the shared handle is invalidated
reset_global_fallback_client == NoClient

\* The handle init_vertex_ai builds from a pool
BuildClient(id, p) == [id |-> id, creds |-> {e.payload : e \in p}]

\* verify_web_password(password)
WebPassword == <<"p", "w">>
verify_web_password(password) == password = WebPassword

(***************************************************************************)
(* POST /api/update-config: validation.                                    *)
(***************************************************************************)
NoRequest == [password |-> JNull, key |-> "", value |-> JNull]

\* As Rejection, without the call of verify_web_password
MutRejectionNoVerify(r) ==
    IF ~PyTruthy(r.password) THEN 400
    ELSE IF r.password.t # "str" THEN 422
    ELSE IF r.key = "" THEN 400
    ELSE 0

\* The password and key checks that open update_config: the status they raise,
\* or 0 when the request passes them
Rejection(r) ==
    IF ~PyTruthy(r.password) THEN 400
    ELSE IF r.password.t # "str" THEN 422
    ELSE IF ~verify_web_password(r.password.s) THEN 401
    ELSE IF r.key = "" THEN 400
    ELSE 0

PositiveIntKeys ==
    {"max_requests_per_minute", "max_requests_per_day_per_ip", "random_string_length",
     "concurrent_requests", "max_concurrent_requests", "max_retry_num"}
NonNegativeIntKeys == {"increase_concurrent_on_failure", "max_empty_responses"}
IntKeys == PositiveIntKeys \cup NonNegativeIntKeys
PlainBoolKeys == {"enable_vertex_express", "random_string", "search_mode", "enable_vertex"}
BoolKeys == PlainBoolKeys \cup {"fake_streaming"}
SentinelKeys == {"vertex_express_api_key", "google_credentials_json"}
KnownKeys ==
    IntKeys \cup BoolKeys \cup SentinelKeys \cup {"fake_streaming_interval", "search_prompt"}

\* The setting each key writes
SettingName(key) ==
    CASE key = "max_requests_per_minute" -> "MAX_REQUESTS_PER_MINUTE"
      [] key = "max_requests_per_day_per_ip" -> "MAX_REQUESTS_PER_DAY_PER_IP"
      [] key = "fake_streaming" -> "FAKE_STREAMING"
      [] key = "enable_vertex_express" -> "ENABLE_VERTEX_EXPRESS"
      [] key = "vertex_express_api_key" -> "VERTEX_EXPRESS_API_KEY"
      [] key = "fake_streaming_interval" -> "FAKE_STREAMING_INTERVAL"
      [] key = "random_string" -> "RANDOM_STRING"
      [] key = "random_string_length" -> "RANDOM_STRING_LENGTH"
      [] key = "search_mode" -> "search_mode"
      [] key = "search_prompt" -> "search_prompt"
      [] key = "concurrent_requests" -> "CONCURRENT_REQUESTS"
      [] key = "increase_concurrent_on_failure" -> "INCREASE_CONCURRENT_ON_FAILURE"
      [] key = "max_concurrent_requests" -> "MAX_CONCURRENT_REQUESTS"
      [] key = "enable_vertex" -> "ENABLE_VERTEX"
      [] key = "google_credentials_json" -> "GOOGLE_CREDENTIALS_JSON"
      [] key = "max_retry_num" -> "MAX_RETRY_NUM"
      [] key = "max_empty_responses" -> "MAX_EMPTY_RESPONSES"

\* The status an exception raised by int() or float() ends as: the branch's own
\* "except ValueError" gives 422, the handler's last "except Exception" 500
CoercionStatus(exc) == IF exc = "ValueError" THEN 422 ELSE 500

\* An integer key's try block: value = int(config_value), then its bound
IntResult(key, value) ==
    LET c == PyInt(value)
        low == IF key \in PositiveIntKeys THEN 1 ELSE 0
    IN IF c.exc # "none" THEN [code |-> CoercionStatus(c.exc), v |-> 0]
       ELSE IF c.v < low THEN [code |-> 422, v |-> 0]
       ELSE [code |-> 200, v |-> c.v]

\* fake_streaming_interval's try block: value = float(config_value), value > 0
FloatResult(value) ==
    LET c == PyFloat(value)
    IN IF c.exc # "none" THEN [code |-> CoercionStatus(c.exc), v |-> 0]
       ELSE IF c.v <= 0 THEN [code |-> 422, v |-> 0]
       ELSE [code |-> 200, v |-> c.v]

\* As BoolResult, with the strings "true" and "false" coerced
MutBoolResultCoerces(value) ==
    IF value.t = "bool" THEN [code |-> 200, v |-> value.b]
    ELSE IF value.t = "str" /\ StrLower(value.s) = <<"t", "r", "u", "e">>
    THEN [code |-> 200, v |-> TRUE]
    ELSE [code |-> 422, v |-> FALSE]

\* A boolean key: isinstance(config_value, bool)
BoolResult(value) ==
    IF value.t = "bool" THEN [code |-> 200, v |-> value.b] ELSE [code |-> 422, v |-> FALSE]

\* A string key: isinstance(config_value, str)
StrResult(value) ==
    IF value.t = "str" THEN [code |-> 200, v |-> value.s] ELSE [code |-> 422, v |-> <<>>]

\* As IsNoopSentinel, without .lower()
MutIsNoopSentinelCaseSensitive(s) == s = <<>> \/ s = <<"t", "r", "u", "e">>

\* not config_value or config_value.lower() == "true"
IsNoopSentinel(s) == s = <<>> \/ StrLower(s) = <<"t", "r", "u", "e">>

\* As ExpressKeyList, without "if key.strip()"
MutExpressKeyListKeepsBlank(s) ==
    LET frags == Split(s, ",")
    IN [i \in DOMAIN frags |-> Strip(frags[i])]

\* [key.strip() for key in config_value.split(",") if key.strip()]
ExpressKeyList(s) ==
    LET frags == Split(s, ",")
        stripped == [i \in DOMAIN frags |-> Strip(frags[i])]
    IN SelectSeq(stripped, LAMBDA k : k # <<>>)

\* The pre-check of a credential blob: 0 when it passes, else the status raised
BlobPrecheck(s) ==
    IF parse_multiple_json_credentials(s) # <<>> THEN 0
    ELSE IF JsonLoads(s).exc = "JSONDecodeError" THEN 422
    ELSE 0

\* As ReloadPool, with the whole pool replaced by the blob's credentials
MutReloadPoolDestructive(p, s) ==
    LET parsed == parse_multiple_json_credentials(s)
    IN IF parsed # <<>> THEN load_credentials_from_json_list({}, parsed)
       ELSE add_credential_from_json({}, JsonLoads(s))

\* As ReloadPool, without the call of clear_json_string_credentials
MutReloadPoolNoClear(p, s) ==
    LET parsed == parse_multiple_json_credentials(s)
    IN IF parsed # <<>> THEN load_credentials_from_json_list(p, parsed)
       ELSE add_credential_from_json(p, JsonLoads(s))

\* As ReloadPool, with clear_json_string_credentials called after the load
MutReloadPoolClearsLast(p, s) ==
    LET parsed == parse_multiple_json_credentials(s)
    IN clear_json_string_credentials(
           IF parsed # <<>> THEN load_credentials_from_json_list(p, parsed)
           ELSE add_credential_from_json(p, JsonLoads(s)))

\* What update_config does to the attached credential manager for a new blob
ReloadPool(p, s) ==
    LET cleared == clear_json_string_credentials(p)
        parsed == parse_multiple_json_credentials(s)
    IN IF parsed # <<>> THEN load_credentials_from_json_list(cleared, parsed)
       ELSE add_credential_from_json(cleared, JsonLoads(s))

(***************************************************************************)
(* POST /api/update-config: the handler.  One action runs update_config    *)
(* from the request to its return, its HTTPException or its next await.    *)
(***************************************************************************)
Return(h, r, code, evs) ==
    /\ pc' = [pc EXCEPT ![h] = "done"]
    /\ req' = [req EXCEPT ![h] = r]
    /\ status' = [status EXCEPT ![h] = code]
    /\ events' = [events EXCEPT ![h] = evs]
    /\ nreq' = nreq + 1
    /\ UNCHANGED telemetry

Suspend(h, r, at, evs) ==
    /\ pc' = [pc EXCEPT ![h] = at]
    /\ req' = [req EXCEPT ![h] = r]
    /\ events' = [events EXCEPT ![h] = evs]
    /\ nreq' = nreq + 1
    /\ UNCHANGED <<status, telemetry>>

\* The events of a request that wrote its setting and reached save_settings()
Applied(code) == IF code = 200 THEN <<"write", "save">> ELSE <<>>

\* A missing, mistyped or wrong password, or a missing key
UpdateConfigRejected(h, r) ==
    /\ pc[h] = "idle"
    /\ Rejection(r) # 0
    /\ Return(h, r, Rejection(r), <<>>)
    /\ UNCHANGED <<settings, vertex_config, VERTEX_EXPRESS_API_KEY_VAL, credential_manager,
                   pool, fallback_client, persisted, building, nbuilt>>

\* As UpdateUnsupportedKey, with the last "else: raise" missing: the request
\* falls through to save_settings() and the success response
MutUpdateUnsupportedKeyFallsThrough(h, r) ==
    /\ pc[h] = "idle"
    /\ Rejection(r) = 0
    /\ r.key \notin KnownKeys
    /\ persisted' = settings
    /\ Return(h, r, 200, <<"save">>)
    /\ UNCHANGED <<settings, vertex_config, VERTEX_EXPRESS_API_KEY_VAL, credential_manager,
                   pool, fallback_client, building, nbuilt>>

\* A key that no branch recognises
UpdateUnsupportedKey(h, r) ==
    /\ pc[h] = "idle"
    /\ Rejection(r) = 0
    /\ r.key \notin KnownKeys
    /\ Return(h, r, 400, <<>>)
    /\ UNCHANGED <<settings, vertex_config, VERTEX_EXPRESS_API_KEY_VAL, credential_manager,
                   pool, fallback_client, persisted, building, nbuilt>>

\* The eight integer keys
UpdateIntSetting(h, r) ==
    /\ pc[h] = "idle"
    /\ Rejection(r) = 0
    /\ r.key \in IntKeys
    /\ LET res == IntResult(r.key, r.value)
       IN /\ settings' = IF res.code = 200
                         THEN [settings EXCEPT ![SettingName(r.key)] = res.v]
                         ELSE settings
          /\ persisted' = IF res.code = 200 THEN settings' ELSE persisted
          /\ Return(h, r, res.code, Applied(res.code))
    /\ UNCHANGED <<vertex_config, VERTEX_EXPRESS_API_KEY_VAL, credential_manager, pool,
                   fallback_client, building, nbuilt>>

\* As UpdateBoolSetting, with save_settings() called before the assignment
MutUpdateBoolSettingSavesFirst(h, r) ==
    /\ pc[h] = "idle"
    /\ Rejection(r) = 0
    /\ r.key \in PlainBoolKeys
    /\ LET res == BoolResult(r.value)
       IN /\ settings' = IF res.code = 200
                         THEN [settings EXCEPT ![SettingName(r.key)] = res.v]
                         ELSE settings
          /\ persisted' = IF res.code = 200 THEN settings ELSE persisted
          /\ Return(h, r, res.code, IF res.code = 200 THEN <<"save", "write">> ELSE <<>>)
    /\ UNCHANGED <<vertex_config, VERTEX_EXPRESS_API_KEY_VAL, credential_manager, pool,
                   fallback_client, building, nbuilt>>

\* enable_vertex_express, random_string, search_mode, enable_vertex
UpdateBoolSetting(h, r) ==
    /\ pc[h] = "idle"
    /\ Rejection(r) = 0
    /\ r.key \in PlainBoolKeys
    /\ LET res == BoolResult(r.value)
       IN /\ settings' = IF res.code = 200
                         THEN [settings EXCEPT ![SettingName(r.key)] = res.v]
                         ELSE settings
          /\ persisted' = IF res.code = 200 THEN settings' ELSE persisted
          /\ Return(h, r, res.code, Applied(res.code))
    /\ UNCHANGED <<vertex_config, VERTEX_EXPRESS_API_KEY_VAL, credential_manager, pool,
                   fallback_client, building, nbuilt>>

\* search_prompt
UpdateSearchPrompt(h, r) ==
    /\ pc[h] = "idle"
    /\ Rejection(r) = 0
    /\ r.key = "search_prompt"
    /\ LET res == StrResult(r.value)
       IN /\ settings' = IF res.code = 200
                         THEN [settings EXCEPT !.search_prompt = res.v]
                         ELSE settings
          /\ persisted' = IF res.code = 200 THEN settings' ELSE persisted
          /\ Return(h, r, res.code, Applied(res.code))
    /\ UNCHANGED <<vertex_config, VERTEX_EXPRESS_API_KEY_VAL, credential_manager, pool,
                   fallback_client, building, nbuilt>>

\* How a mirroring try block ends.  Its import cannot raise: the module is the
\* one dashboard.py imported when it was loaded
MirrorOutcomes == {"ok", "update_config_raises"}

\* As MirrorFakeStreaming, with update_config() called before the assignment
MutMirrorFakeStreamingCallFirst(vc, v, mirror) ==
    CASE mirror = "ok" -> [vc EXCEPT !.FAKE_STREAMING_ENABLED = v, !.FAKE_STREAMING = v]
      [] OTHER -> vc

\* The secondary namespace after fake_streaming's mirroring try block
MirrorFakeStreaming(vc, v, mirror) ==
    CASE mirror = "ok" -> [vc EXCEPT !.FAKE_STREAMING_ENABLED = v, !.FAKE_STREAMING = v]
      [] mirror = "update_config_raises" -> [vc EXCEPT !.FAKE_STREAMING_ENABLED = v]
      [] OTHER -> vc

\* The status of a branch whose mirroring try block ended as `mirror`: the
\* exception is caught and logged
MirrorStatus(mirror) == 200

\* fake_streaming: the flag, then its mirror in app.vertex.config
UpdateFakeStreaming(h, r, mirror) ==
    /\ pc[h] = "idle"
    /\ Rejection(r) = 0
    /\ r.key = "fake_streaming"
    /\ LET res == BoolResult(r.value)
           code == IF res.code = 200 THEN MirrorStatus(mirror) ELSE res.code
       IN /\ settings' = IF res.code = 200
                         THEN [settings EXCEPT !.FAKE_STREAMING = res.v]
                         ELSE settings
          /\ vertex_config' = IF res.code = 200
                              THEN MirrorFakeStreaming(vertex_config, res.v, mirror)
                              ELSE vertex_config
          /\ persisted' = IF code = 200 THEN settings' ELSE persisted
          /\ Return(h, r, code,
                    IF res.code # 200 THEN <<>>
                    ELSE IF mirror = "ok" THEN <<"write", "mirror_ok", "save">>
                    ELSE IF code = 200 THEN <<"write", "mirror_raised", "save">>
                    ELSE <<"write", "mirror_raised">>)
    /\ UNCHANGED <<VERTEX_EXPRESS_API_KEY_VAL, credential_manager, pool, fallback_client,
                   building, nbuilt>>

\* fake_streaming_interval: the interval, then its mirror in app.vertex.config
UpdateFakeStreamingInterval(h, r, mirror) ==
    /\ pc[h] = "idle"
    /\ Rejection(r) = 0
    /\ r.key = "fake_streaming_interval"
    /\ LET res == FloatResult(r.value)
           code == IF res.code = 200 THEN MirrorStatus(mirror) ELSE res.code
       IN /\ settings' = IF res.code = 200
                         THEN [settings EXCEPT !.FAKE_STREAMING_INTERVAL = res.v]
                         ELSE settings
          /\ vertex_config' = IF res.code = 200 /\ mirror = "ok"
                              THEN [vertex_config EXCEPT !.FAKE_STREAMING_INTERVAL = res.v]
                              ELSE vertex_config
          /\ persisted' = IF code = 200 THEN settings' ELSE persisted
          /\ Return(h, r, code,
                    IF res.code # 200 THEN <<>>
                    ELSE IF mirror = "ok" THEN <<"write", "mirror_ok", "save">>
                    ELSE IF code = 200 THEN <<"write", "mirror_raised", "save">>
                    ELSE <<"write", "mirror_raised">>)
    /\ UNCHANGED <<VERTEX_EXPRESS_API_KEY_VAL, credential_manager, pool, fallback_client,
                   building, nbuilt>>

\* vertex_express_api_key, up to "await refresh_models_config_cache()"
UpdateVertexExpressApiKey(h, r) ==
    /\ pc[h] = "idle"
    /\ Rejection(r) = 0
    /\ r.key = "vertex_express_api_key"
    /\ LET res == StrResult(r.value)
       IN IF res.code # 200
          THEN /\ Return(h, r, res.code, <<>>)
               /\ UNCHANGED <<settings, VERTEX_EXPRESS_API_KEY_VAL, persisted>>
          ELSE IF IsNoopSentinel(res.v)
          THEN /\ persisted' = settings
               /\ Return(h, r, 200, <<"save">>)
               /\ UNCHANGED <<settings, VERTEX_EXPRESS_API_KEY_VAL>>
          ELSE /\ settings' = [settings EXCEPT !.VERTEX_EXPRESS_API_KEY = res.v]
               /\ VERTEX_EXPRESS_API_KEY_VAL' = ExpressKeyList(res.v)
               /\ Suspend(h, r, "refresh", <<"write", "refresh">>)
               /\ UNCHANGED persisted
    /\ UNCHANGED <<vertex_config, credential_manager, pool, fallback_client, building,
                   nbuilt>>

\* google_credentials_json, up to the await inside run_blocking_init_vertex()
UpdateGoogleCredentialsJson(h, r) ==
    /\ pc[h] = "idle"
    /\ Rejection(r) = 0
    /\ r.key = "google_credentials_json"
    /\ LET res == StrResult(r.value)
       IN IF res.code # 200
          THEN /\ Return(h, r, res.code, <<>>)
               /\ UNCHANGED <<settings, pool, fallback_client, persisted>>
          ELSE IF IsNoopSentinel(res.v)
          THEN /\ persisted' = settings
               /\ Return(h, r, 200, <<"save">>)
               /\ UNCHANGED <<settings, pool, fallback_client>>
          ELSE IF BlobPrecheck(res.v) # 0
          THEN /\ Return(h, r, BlobPrecheck(res.v), <<>>)
               /\ UNCHANGED <<settings, pool, fallback_client, persisted>>
          ELSE /\ settings' = [settings EXCEPT !.GOOGLE_CREDENTIALS_JSON = res.v]
               /\ fallback_client' = reset_global_fallback_client
               /\ pool' = IF credential_manager = "None" THEN pool
                          ELSE ReloadPool(pool, res.v)
               /\ persisted' = settings'
               /\ Suspend(h, r, "reinit",
                          IF credential_manager = "None"
                          THEN <<"write", "reset_client", "save", "reinit">>
                          ELSE <<"write", "reset_client", "clear_pool", "load_pool", "save",
                                 "reinit">>)
    /\ UNCHANGED <<vertex_config, VERTEX_EXPRESS_API_KEY_VAL, credential_manager, building,
                   nbuilt>>

Outcomes == {"ok", "failed", "raised"}

\* The pool run_blocking_init_vertex hands to init_vertex_ai: the attached
\* manager's, or that of a CredentialManager made for the occasion
ReinitPool == IF credential_manager = "None" THEN {} ELSE pool

\* init_vertex_ai builds a handle from the pool, or returns False, or raises;
\* run_blocking_init_vertex catches what it raises, and update_config goes on to
\* "await refresh_models_config_cache()"
ReinitBuild(h, outcome) ==
    /\ pc[h] = "reinit"
    /\ IF outcome = "ok"
       THEN /\ building' = [building EXCEPT ![h] = BuildClient(nbuilt + 1, ReinitPool)]
            /\ nbuilt' = nbuilt + 1
            /\ pc' = [pc EXCEPT ![h] = "publish"]
            /\ events' = [events EXCEPT ![h] = Append(@, "build")]
       ELSE /\ pc' = [pc EXCEPT ![h] = "refresh"]
            /\ events' = [events EXCEPT ![h] =
                   @ \o <<IF outcome = "failed" THEN "reinit_failed" ELSE "reinit_raised",
                          "refresh">>]
            /\ UNCHANGED <<building, nbuilt>>
    /\ UNCHANGED <<settings, vertex_config, VERTEX_EXPRESS_API_KEY_VAL, credential_manager,
                   pool, fallback_client, persisted, req, status, nreq, telemetry>>

\* init_vertex_ai publishes the handle it built and returns True
ReinitPublish(h) ==
    /\ pc[h] = "publish"
    /\ fallback_client' = building[h]
    /\ pc' = [pc EXCEPT ![h] = "refresh"]
    /\ events' = [events EXCEPT ![h] = @ \o <<"publish", "refresh">>]
    /\ UNCHANGED <<settings, vertex_config, VERTEX_EXPRESS_API_KEY_VAL, credential_manager,
                   pool, persisted, req, status, building, nreq, nbuilt, telemetry>>

\* As RefreshStatus, with the refresh's exception left to the handler's last
\* "except Exception"
MutRefreshStatusPropagates(outcome) == IF outcome = "raised" THEN 500 ELSE 200

\* The status update_config returns once the refresh ended as `outcome`: a
\* failed refresh is logged, a raising one is caught and logged
RefreshStatus(outcome) == 200

\* refresh_models_config_cache() ends; save_settings(); return success
RefreshDone(h, outcome) ==
    /\ pc[h] = "refresh"
    /\ LET code == RefreshStatus(outcome)
           ev == CASE outcome = "ok" -> "refresh_ok"
                   [] outcome = "failed" -> "refresh_failed"
                   [] OTHER -> "refresh_raised"
       IN /\ persisted' = IF code = 200 THEN settings ELSE persisted
          /\ status' = [status EXCEPT ![h] = code]
          /\ events' = [events EXCEPT ![h] =
                 IF code = 200 THEN @ \o <<ev, "save">> ELSE Append(@, ev)]
    /\ pc' = [pc EXCEPT ![h] = "done"]
    /\ UNCHANGED <<settings, vertex_config, VERTEX_EXPRESS_API_KEY_VAL, credential_manager,
                   pool, fallback_client, req, building, nreq, nbuilt, telemetry>>

\* The response is sent and the handler's frame is gone
Respond(h) ==
    /\ pc[h] = "done"
    /\ pc' = [pc EXCEPT ![h] = "idle"]
    /\ req' = [req EXCEPT ![h] = NoRequest]
    /\ status' = [status EXCEPT ![h] = 0]
    /\ events' = [events EXCEPT ![h] = <<>>]
    /\ building' = [building EXCEPT ![h] = NoClient]
    /\ UNCHANGED <<settings, vertex_config, VERTEX_EXPRESS_API_KEY_VAL, credential_manager,
                   pool, fallback_client, persisted, nreq, nbuilt, telemetry>>

(***************************************************************************)
(* Telemetry: GET /api/dashboard-data and POST /api/reset-stats.  The       *)
(* statistics manager, the cache manager and the active-request tracker    *)
(* are not part of the available sources: their operations follow the      *)
(* design document.  Buckets are grouped by age: within the last minute,   *)
(* the last hour, the last day, or stale (older than the 24 h horizon).    *)
(***************************************************************************)
Bucket(calls, tokens) == [calls |-> calls, tokens |-> tokens]

NoStats ==
    [minute |-> Bucket(0, 0), hour |-> Bucket(0, 0), day |-> Bucket(0, 0),
     stale |-> Bucket(0, 0)]

SomeStats ==
    [minute |-> Bucket(1, 2), hour |-> Bucket(1, 1), day |-> Bucket(1, 2),
     stale |-> Bucket(1, 1)]

\* api_stats_manager.maybe_cleanup(): the buckets past the horizon are dropped
maybe_cleanup(b) == [b EXCEPT !.stale = Bucket(0, 0)]

\* api_stats_manager.reset(): every bucket is cleared
api_stats_reset(b) == NoStats

\* The statistics manager records a completed call in the current minute
add_record(b, tokens) ==
    [b EXCEPT !.minute = Bucket(@.calls + 1, @.tokens + tokens)]

get_calls_last_minute(b) == b.minute.calls
get_calls_last_hour(b) == b.minute.calls + b.hour.calls
\* get_calls_last_24h() is given no clock: it sums the buckets still retained
get_calls_last_24h(b) == b.minute.calls + b.hour.calls + b.day.calls + b.stale.calls
get_tokens_last_minute(b) == b.minute.tokens
get_tokens_last_hour(b) == b.minute.tokens + b.hour.tokens
get_tokens_last_24h(b) == b.minute.tokens + b.hour.tokens + b.day.tokens + b.stale.tokens

\* response_cache_manager.clean_expired()
clean_expired(c) == [c EXCEPT !.expired = 0]

\* active_requests_manager.clean_completed()
clean_completed(a) == [a EXCEPT !.done = 0]

NoSnapshot ==
    [credentials_count |-> 0, last_24h_calls |-> 0, hourly_calls |-> 0,
     minute_calls |-> 0, last_24h_tokens |-> 0, hourly_tokens |-> 0,
     minute_tokens |-> 0, fake_streaming |-> FALSE, cache_entries |-> 0,
     active_count |-> 0, active_done |-> 0, active_pending |-> 0,
     enable_vertex |-> FALSE, max_retry_num |-> 0,
     vertex_express_api_key |-> FALSE, google_credentials_json |-> FALSE]

\* As Snapshot, with the credential blob echoed as it is, not as bool(...)
MutSnapshotEchoesBlob(b, c, a, mgr, p, st) ==
    [credentials_count |-> IF mgr = "None" THEN 0 ELSE get_total_credentials(p),
     last_24h_calls |-> get_calls_last_24h(b),
     hourly_calls |-> get_calls_last_hour(b),
     minute_calls |-> get_calls_last_minute(b),
     last_24h_tokens |-> get_tokens_last_24h(b),
     hourly_tokens |-> get_tokens_last_hour(b),
     minute_tokens |-> get_tokens_last_minute(b),
     fake_streaming |-> st.FAKE_STREAMING,
     cache_entries |-> c.live + c.expired,
     active_count |-> a.pending + a.done,
     active_done |-> a.done,
     active_pending |-> a.pending,
     enable_vertex |-> st.ENABLE_VERTEX,
     max_retry_num |-> st.MAX_RETRY_NUM,
     vertex_express_api_key |-> st.VERTEX_EXPRESS_API_KEY # <<>>,
     google_credentials_json |-> st.GOOGLE_CREDENTIALS_JSON]

\* The dictionary get_dashboard_data returns, read from the given state
Snapshot(b, c, a, mgr, p, st) ==
    [credentials_count |-> IF mgr = "None" THEN 0 ELSE get_total_credentials(p),
     last_24h_calls |-> get_calls_last_24h(b),
     hourly_calls |-> get_calls_last_hour(b),
     minute_calls |-> get_calls_last_minute(b),
     last_24h_tokens |-> get_tokens_last_24h(b),
     hourly_tokens |-> get_tokens_last_hour(b),
     minute_tokens |-> get_tokens_last_minute(b),
     fake_streaming |-> st.FAKE_STREAMING,
     cache_entries |-> c.live + c.expired,
     active_count |-> a.pending + a.done,
     active_done |-> a.done,
     active_pending |-> a.pending,
     enable_vertex |-> st.ENABLE_VERTEX,
     max_retry_num |-> st.MAX_RETRY_NUM,
     vertex_express_api_key |-> st.VERTEX_EXPRESS_API_KEY # <<>>,
     google_credentials_json |-> st.GOOGLE_CREDENTIALS_JSON # <<>>]

IdleDash == [pc |-> "idle", status |-> 0, log |-> <<>>, snapshot |-> NoSnapshot]

\* The counter and setting reads of get_dashboard_data, in the order it makes them
SnapshotReads ==
    <<"read_stats", "read_cache", "read_active", "read_credentials", "read_settings">>

\* get_dashboard_data up to the end of "await api_stats_manager.maybe_cleanup()"
DashStart ==
    /\ dash.pc = "idle"
    /\ api_stats_manager' = maybe_cleanup(api_stats_manager)
    /\ dash' = [dash EXCEPT !.pc = "clean_expired", !.log = <<"maybe_cleanup">>]
    /\ nreq' = nreq + 1
    /\ UNCHANGED <<store, handlers, response_cache_manager, active_requests_manager,
                   response_cache, active_requests, reset, nrec>>

\* "await response_cache_manager.clean_expired()": with no cache manager the
\* attribute lookup raises, and the request ends as 500
DashCleanExpired ==
    /\ dash.pc = "clean_expired"
    /\ IF response_cache_manager = "None"
       THEN /\ dash' = [dash EXCEPT !.pc = "done", !.status = 500,
                                    !.log = Append(@, "AttributeError")]
            /\ UNCHANGED response_cache
       ELSE /\ response_cache' = clean_expired(response_cache)
            /\ dash' = [dash EXCEPT !.pc = "build", !.log = Append(@, "clean_expired")]
    /\ UNCHANGED <<store, handlers, nreq, response_cache_manager, active_requests_manager,
                   api_stats_manager, active_requests, reset, nrec>>

\* As DashBuild, with the counters read before the completed tasks are pruned
MutDashBuildReadsFirst ==
    /\ dash.pc = "build"
    /\ active_requests_manager # "None"
    /\ active_requests' = clean_completed(active_requests)
    /\ dash' = [dash EXCEPT
           !.pc = "done", !.status = 200,
           !.log = @ \o SnapshotReads \o <<"clean_completed">>,
           !.snapshot = Snapshot(api_stats_manager, response_cache, active_requests,
                                 credential_manager, pool, settings)]
    /\ UNCHANGED <<store, handlers, nreq, response_cache_manager, active_requests_manager,
                   api_stats_manager, response_cache, reset, nrec>>

\* active_requests_manager.clean_completed(), then every read, then the return
DashBuild ==
    /\ dash.pc = "build"
    /\ IF active_requests_manager = "None"
       THEN /\ dash' = [dash EXCEPT !.pc = "done", !.status = 500,
                                    !.log = Append(@, "AttributeError")]
            /\ UNCHANGED active_requests
       ELSE /\ active_requests' = clean_completed(active_requests)
            /\ dash' = [dash EXCEPT
                   !.pc = "done", !.status = 200,
                   !.log = @ \o <<"clean_completed">> \o SnapshotReads,
                   !.snapshot = Snapshot(api_stats_manager, response_cache,
                                         active_requests', credential_manager, pool,
                                         settings)]
    /\ UNCHANGED <<store, handlers, nreq, response_cache_manager, active_requests_manager,
                   api_stats_manager, response_cache, reset, nrec>>

\* The response is sent
DashRespond ==
    /\ dash.pc = "done"
    /\ dash' = IdleDash
    /\ UNCHANGED <<store, handlers, nreq, response_cache_manager, active_requests_manager,
                   api_stats_manager, response_cache, active_requests, reset, nrec>>

IdleReset == [pc |-> "idle", password |-> JNull, status |-> 0]

\* As ResetRejection, without the call of verify_web_password
MutResetRejectionNoVerify(password) ==
    IF ~PyTruthy(password) THEN 400
    ELSE IF password.t # "str" THEN 422
    ELSE 0

\* The password checks that open reset_stats: the status they raise, or 0
ResetRejection(password) ==
    IF ~PyTruthy(password) THEN 400
    ELSE IF password.t # "str" THEN 422
    ELSE IF ~verify_web_password(password.s) THEN 401
    ELSE 0

\* reset_stats with a missing, mistyped or wrong password
ResetStatsRejected(password) ==
    /\ reset.pc = "idle"
    /\ ResetRejection(password) # 0
    /\ reset' = [pc |-> "done", password |-> password, status |-> ResetRejection(password)]
    /\ nreq' = nreq + 1
    /\ UNCHANGED <<store, handlers, response_cache_manager, active_requests_manager,
                   api_stats_manager, response_cache, active_requests, dash, nrec>>

\* reset_stats: "await api_stats_manager.reset()", then the success response
ResetStats(password) ==
    /\ reset.pc = "idle"
    /\ ResetRejection(password) = 0
    /\ api_stats_manager' = api_stats_reset(api_stats_manager)
    /\ reset' = [pc |-> "done", password |-> password, status |-> 200]
    /\ nreq' = nreq + 1
    /\ UNCHANGED <<store, handlers, response_cache_manager, active_requests_manager,
                   response_cache, active_requests, dash, nrec>>

\* The response is sent
ResetRespond ==
    /\ reset.pc = "done"
    /\ reset' = IdleReset
    /\ UNCHANGED <<store, handlers, nreq, response_cache_manager, active_requests_manager,
                   api_stats_manager, response_cache, active_requests, dash, nrec>>

\* A proxied call completes and is recorded
RecordCall ==
    /\ nrec < MaxRecords
    /\ api_stats_manager' = add_record(api_stats_manager, 2)
    /\ nrec' = nrec + 1
    /\ UNCHANGED <<store, handlers, nreq, response_cache_manager, active_requests_manager,
                   response_cache, active_requests, dash, reset>>

(***************************************************************************)
(* Startup (app/main.py) and the requests.                                 *)
(***************************************************************************)
\* init_dashboard_router binds its first three parameters to the module's
\* globals and ignores its fourth
init_dashboard_router(cache_mgr, active_req_mgr, cred_mgr, key_mgr) ==
    [response_cache_manager |-> cache_mgr, active_requests_manager |-> active_req_mgr,
     credential_manager |-> cred_mgr]

\* lifespan's call: init_dashboard_router(None, None, None, credential_manager)
LifespanWiring == init_dashboard_router("None", "None", "None", "pool")

\* A caller that hands the manager over as cred_mgr
CredMgrWiring == init_dashboard_router("None", "None", "pool", "None")

\* A caller that hands over all three managers
FullWiring == init_dashboard_router("cache", "active", "pool", "None")

InitialSettings(blob) ==
    [MAX_REQUESTS_PER_MINUTE |-> 1, MAX_REQUESTS_PER_DAY_PER_IP |-> 1,
     FAKE_STREAMING |-> TRUE, ENABLE_VERTEX_EXPRESS |-> FALSE,
     VERTEX_EXPRESS_API_KEY |-> <<>>, FAKE_STREAMING_INTERVAL |-> 10,
     RANDOM_STRING |-> TRUE, RANDOM_STRING_LENGTH |-> 1,
     search_mode |-> FALSE, search_prompt |-> <<"a">>,
     CONCURRENT_REQUESTS |-> 1, INCREASE_CONCURRENT_ON_FAILURE |-> 0,
     MAX_CONCURRENT_REQUESTS |-> 1, ENABLE_VERTEX |-> FALSE,
     GOOGLE_CREDENTIALS_JSON |-> blob, MAX_RETRY_NUM |-> 1, MAX_EMPTY_RESPONSES |-> 1]

\* lifespan: the manager's own entries, plus the environment blob's credential
LifespanPool(others, blob) ==
    IF blob # <<>> /\ JsonLoads(blob).exc = "none"
    THEN add_credential_from_json(others, JsonLoads(blob))
    ELSE others

Startup(wiring, others, blob, initialised) ==
    /\ settings = InitialSettings(blob)
    /\ vertex_config = [FAKE_STREAMING_ENABLED |-> TRUE, FAKE_STREAMING |-> TRUE,
                        FAKE_STREAMING_INTERVAL |-> 10]
    /\ VERTEX_EXPRESS_API_KEY_VAL = <<>>
    /\ credential_manager = wiring.credential_manager
    /\ response_cache_manager = wiring.response_cache_manager
    /\ active_requests_manager = wiring.active_requests_manager
    /\ pool = LifespanPool(others, blob)
    /\ fallback_client = IF initialised THEN BuildClient(1, pool) ELSE NoClient
    /\ nbuilt = IF initialised THEN 1 ELSE 0
    /\ persisted = settings
    /\ pc = [h \in Handlers |-> "idle"]
    /\ req = [h \in Handlers |-> NoRequest]
    /\ status = [h \in Handlers |-> 0]
    /\ events = [h \in Handlers |-> <<>>]
    /\ building = [h \in Handlers |-> NoClient]
    /\ nreq = 0

\* The statistics, the cache and the tracker when the first request arrives
StartupTelemetry(buckets) ==
    /\ api_stats_manager = buckets
    /\ response_cache = IF response_cache_manager = "None"
                        THEN [live |-> 0, expired |-> 0]
                        ELSE [live |-> 1, expired |-> 1]
    /\ active_requests = IF active_requests_manager = "None"
                         THEN [pending |-> 0, done |-> 0]
                         ELSE [pending |-> 1, done |-> 1]
    /\ dash = IdleDash
    /\ reset = IdleReset
    /\ nrec = 0

FileEntries == {Entry("F1", "Other"), Entry("F2", "Other")}

\* The application as main.py starts it
Init ==
    \E blob \in {<<>>, <<"{A}">>}, initialised \in BOOLEAN :
        /\ Startup(LifespanWiring, {Entry("F1", "Other")}, blob, initialised)
        /\ StartupTelemetry(SomeStats)

\* The dashboard router with either wiring of its credential manager
InitCred ==
    \E wiring \in {LifespanWiring, CredMgrWiring}, blob \in {<<>>, <<"{A}">>},
       initialised \in BOOLEAN :
        /\ Startup(wiring, FileEntries, blob, initialised)
        /\ StartupTelemetry(SomeStats)

Passwords == {JNull, JInt(1), JStr(<<"x">>), JStr(WebPassword)}

Keys == KnownKeys \cup {"", "bogus"}

Values ==
    {JNull, JBool(TRUE), JBool(FALSE), JInt(-1), JInt(0), JInt(2), JFloat(5), JNegInf,
     JList, JStr(<<>>), JStr(<<"t", "r", "u", "e">>), JStr(<<"T", "R", "U", "E">>),
     JStr(<<"a", "b">>), JStr(<<"2">>), JStr(<<"-", "1">>), JStr(<<"{A}">>),
     JStr(<<"{A}", ",", "{B}">>), JStr(<<"a", ",", " ", ",", " ", "b">>)}

Requests == [password : Passwords, key : Keys, value : Values]

CredValues ==
    {JInt(2), JStr(<<>>), JStr(<<"t", "r", "u", "e">>), JStr(<<"T", "r", "u", "e">>),
     JStr(<<"a", "b">>), JStr(<<"2">>),
     JStr(<<"{B}">>), JStr(<<"{A}", ",", " ", "{B}", ",", "{C}">>)}

CredRequests ==
    [password : {JStr(WebPassword)}, key : SentinelKeys, value : CredValues]
        \cup [password : {JStr(<<"x">>)}, key : SentinelKeys, value : {JStr(<<"{B}">>)}]

\* A new request is served by the first idle handler
Free(h) == pc[h] = "idle" /\ \A g \in Handlers : g < h => pc[g] # "idle"

\* One handler at a time, every key
Accepting == pc[1] = "idle" /\ nreq < MaxRequests

Next ==
    \/ Accepting /\ \E r \in Requests : UpdateConfigRejected(1, r)
    \/ Accepting /\ \E r \in Requests : UpdateUnsupportedKey(1, r)
    \/ Accepting /\ \E r \in Requests : UpdateIntSetting(1, r)
    \/ Accepting /\ \E r \in Requests : UpdateBoolSetting(1, r)
    \/ Accepting /\ \E r \in Requests : UpdateSearchPrompt(1, r)
    \/ Accepting /\ \E r \in Requests, m \in MirrorOutcomes : UpdateFakeStreaming(1, r, m)
    \/ Accepting /\ \E r \in Requests, m \in MirrorOutcomes :
                        UpdateFakeStreamingInterval(1, r, m)
    \/ Accepting /\ \E r \in Requests : UpdateVertexExpressApiKey(1, r)
    \/ Accepting /\ \E r \in Requests : UpdateGoogleCredentialsJson(1, r)
    \/ \E o \in Outcomes : ReinitBuild(1, o)
    \/ ReinitPublish(1)
    \/ \E o \in Outcomes : RefreshDone(1, o)
    \/ Respond(1)

Spec == Init /\ [][Next]_vars

\* Overlapping handlers, the two keys that carry secrets
AcceptingCred(h) == Free(h) /\ nreq < MaxCredRequests

NextCred ==
    \/ \E h \in Handlers :
           AcceptingCred(h) /\ \E r \in CredRequests : UpdateConfigRejected(h, r)
    \/ \E h \in Handlers :
           AcceptingCred(h) /\ \E r \in CredRequests : UpdateVertexExpressApiKey(h, r)
    \/ \E h \in Handlers :
           AcceptingCred(h) /\ \E r \in CredRequests : UpdateGoogleCredentialsJson(h, r)
    \/ \E h \in Handlers, o \in {"ok", "failed"} : ReinitBuild(h, o)
    \/ \E h \in Handlers : ReinitPublish(h)
    \/ \E h \in Handlers : RefreshDone(h, "ok")
    \/ \E h \in Handlers : Respond(h)

SpecCred == InitCred /\ [][NextCred]_vars

\* The telemetry endpoints beside updates of the settings the snapshot echoes
InitDash ==
    \E wiring \in {LifespanWiring, FullWiring}, buckets \in {NoStats, SomeStats},
       blob \in {<<>>, <<"{A}">>} :
        /\ Startup(wiring, {Entry("F1", "Other")}, blob, TRUE)
        /\ StartupTelemetry(buckets)

DashRequests ==
    [password : {JStr(WebPassword)}, key : {"enable_vertex", "max_retry_num"},
     value : {JBool(TRUE), JBool(FALSE), JInt(2)}]
        \cup [password : {JStr(<<"x">>)}, key : {"enable_vertex"}, value : {JBool(TRUE)}]
        \cup [password : {JStr(WebPassword)}, key : {"vertex_express_api_key"},
              value : {JStr(<<"a", "b">>)}]

ResetPasswords == Passwords \cup {JStr(<<>>)}

AcceptingDash == nreq < MaxDashRequests

NextDash ==
    \/ AcceptingDash /\ pc[1] = "idle" /\ \E r \in DashRequests : UpdateConfigRejected(1, r)
    \/ AcceptingDash /\ pc[1] = "idle" /\ \E r \in DashRequests : UpdateBoolSetting(1, r)
    \/ AcceptingDash /\ pc[1] = "idle" /\ \E r \in DashRequests : UpdateIntSetting(1, r)
    \/ AcceptingDash /\ pc[1] = "idle"
           /\ \E r \in DashRequests : UpdateVertexExpressApiKey(1, r)
    \/ RefreshDone(1, "ok")
    \/ Respond(1)
    \/ AcceptingDash /\ DashStart
    \/ DashCleanExpired
    \/ DashBuild
    \/ DashRespond
    \/ AcceptingDash /\ \E password \in ResetPasswords : ResetStatsRejected(password)
    \/ AcceptingDash /\ \E password \in ResetPasswords : ResetStats(password)
    \/ ResetRespond
    \/ RecordCall

SpecDash == InitDash /\ [][NextDash]_vars

(***************************************************************************)
(* Properties.                                                             *)
(***************************************************************************)
\* The step in which handler h takes a request (req'[h]) and runs update_config
\* up to its return, its HTTPException or its first await
Takes(h) == pc[h] = "idle" /\ pc'[h] # "idle"

Authorized(r) == PyTruthy(r.password) /\ r.password.t = "str" /\ r.password.s = WebPassword

Has(evs, e) == \E i \in DOMAIN evs : evs[i] = e

\* C1: a request whose password fails verification ends as 401 whatever its key
\* and value, and changes no setting, no pool entry, not the fallback client and
\* not the persisted snapshot.
C1_WrongPasswordChangesNothing ==
    [][\A h \in Handlers :
          (/\ Takes(h)
           /\ req'[h].password.t = "str"
           /\ req'[h].password.s # <<>>
           /\ req'[h].password.s # WebPassword)
          => /\ pc'[h] = "done"
             /\ status'[h] = 401
             /\ settings' = settings
             /\ vertex_config' = vertex_config
             /\ VERTEX_EXPRESS_API_KEY_VAL' = VERTEX_EXPRESS_API_KEY_VAL
             /\ pool' = pool
             /\ fallback_client' = fallback_client
             /\ persisted' = persisted]_vars

\* C1's case: a wrong password with an otherwise valid update of max_retry_num
C1_Witness ==
    \E h \in Handlers :
        /\ pc[h] = "done"
        /\ status[h] = 401
        /\ req[h].password = JStr(<<"x">>)
        /\ req[h].key = "max_retry_num"
        /\ req[h].value = JInt(2)

NonPositive(v) == v.t = "neginf" \/ (v.t \in {"int", "float"} /\ v.n <= 0)
NonNumericString(v) == v.t = "str" /\ ~IsIntText(Strip(v.s))

\* C2: for a key with a "> 0" bound, an authorized update whose value is <= 0 or
\* a non-numeric string ends as 422 and leaves the key's setting as it was.
C2_NonPositiveIsInvalidType ==
    [][\A h \in Handlers :
          (/\ Takes(h)
           /\ Authorized(req'[h])
           /\ req'[h].key \in PositiveIntKeys
           /\ (NonPositive(req'[h].value) \/ NonNumericString(req'[h].value)))
          => /\ status'[h] = 422
             /\ settings'[SettingName(req'[h].key)] = settings[SettingName(req'[h].key)]]_vars

\* C2 for the finite numbers and the strings: every value of the claim but
\* minus infinity ends as 422 with the setting kept.
C2_FiniteNonPositiveIsInvalidType ==
    [][\A h \in Handlers :
          (/\ Takes(h)
           /\ Authorized(req'[h])
           /\ req'[h].key \in PositiveIntKeys
           /\ req'[h].value.t # "neginf"
           /\ (NonPositive(req'[h].value) \/ NonNumericString(req'[h].value)))
          => /\ status'[h] = 422
             /\ settings'[SettingName(req'[h].key)] = settings[SettingName(req'[h].key)]]_vars

\* C3: for a boolean key, an authorized update whose value is a string, "true"
\* included, ends as 422 and changes neither the settings nor their mirror.
C3_StringIsNotBoolean ==
    [][\A h \in Handlers :
          (/\ Takes(h)
           /\ Authorized(req'[h])
           /\ req'[h].key \in BoolKeys
           /\ req'[h].value.t = "str")
          => /\ pc'[h] = "done"
             /\ status'[h] = 422
             /\ settings' = settings
             /\ vertex_config' = vertex_config]_vars

\* C3's case: the string "true" sent for enable_vertex
C3_Witness ==
    \E h \in Handlers :
        /\ pc[h] = "done"
        /\ status[h] = 422
        /\ Authorized(req[h])
        /\ req[h].key = "enable_vertex"
        /\ req[h].value = JStr(<<"t", "r", "u", "e">>)
        /\ settings.ENABLE_VERTEX = FALSE

\* A blob that is neither one JSON object nor a comma-separated list of them
NeitherShape(s) ==
    LET frags == Split(s, ",")
    IN \E i \in DOMAIN frags :
           ~(Len(Strip(frags[i])) = 1 /\ Strip(frags[i])[1] \in Objects)

\* The number k of a blob that is k comma-separated JSON objects, else 0
ObjectCount(s) == IF NeitherShape(s) THEN 0 ELSE Len(Split(s, ","))

\* C4: an authorized google_credentials_json update whose blob is neither a JSON
\* object nor a comma-separated list of JSON objects ends as 422 and leaves the
\* pool, the stored blob and the fallback client as they were.  (The two
\* "do not change" values are C8's.)
C4_MalformedBlobTouchesNothing ==
    [][\A h \in Handlers :
          (/\ Takes(h)
           /\ Authorized(req'[h])
           /\ req'[h].key = "google_credentials_json"
           /\ req'[h].value.t = "str"
           /\ req'[h].value.s # <<>>
           /\ StrLower(req'[h].value.s) # <<"t", "r", "u", "e">>
           /\ NeitherShape(req'[h].value.s))
          => /\ status'[h] = 422
             /\ pool' = pool
             /\ settings' = settings
             /\ fallback_client' = fallback_client]_vars

\* C5: no step changes the pool's entries of a provenance other than the
\* environment blob.
C5_OtherProvenanceKept == [][OtherEntries(pool') = OtherEntries(pool)]_vars

\* C5's case: a reload has replaced the three entries of an earlier blob by {B}
\* beside the two entries of other provenance
C5_Witness ==
    /\ credential_manager = "pool"
    /\ pool = FileEntries \cup {Entry("{B}", "EnvironmentBlob")}
    /\ \E h \in Handlers : pc[h] = "reinit" /\ req[h].value = JStr(<<"{B}">>)
    /\ \E g \in Handlers :
           /\ pc[g] = "done"
           /\ status[g] = 200
           /\ req[g].key = "google_credentials_json"
           /\ ObjectCount(req[g].value.s) = 3

\* C6: with a pool attached, the reload of an accepted blob of k JSON objects
\* leaves the pool with its entries of other provenance plus exactly k, however
\* many entries the blob had loaded before.
C6_ReloadCountsOthersPlusK ==
    [][\A h \in Handlers :
          (/\ Takes(h)
           /\ credential_manager = "pool"
           /\ Authorized(req'[h])
           /\ req'[h].key = "google_credentials_json"
           /\ req'[h].value.t = "str"
           /\ ObjectCount(req'[h].value.s) >= 1)
          => /\ pc'[h] = "reinit"
             /\ get_total_credentials(pool') =
                    Cardinality(OtherEntries(pool)) + ObjectCount(req'[h].value.s)]_vars

\* C6's case: three objects loaded over a pool that held one blob entry
C6_Witness ==
    /\ credential_manager = "pool"
    /\ nreq >= 2
    /\ get_total_credentials(pool) = 5
    /\ \E h \in Handlers :
           /\ pc[h] = "reinit"
           /\ ObjectCount(req[h].value.s) = 3
    /\ \E g \in Handlers :
           /\ pc[g] = "done"
           /\ status[g] = 200
           /\ req[g].key = "google_credentials_json"
           /\ req[g].value = JStr(<<"{B}">>)

\* C7: with a pool attached, an authorized google_credentials_json update with
\* the empty string removes every entry the blob had loaded and keeps the
\* others.
C7_EmptyBlobClearsBlobEntries ==
    [][\A h \in Handlers :
          (/\ Takes(h)
           /\ credential_manager = "pool"
           /\ Authorized(req'[h])
           /\ req'[h].key = "google_credentials_json"
           /\ req'[h].value = JStr(<<>>))
          => /\ EnvEntries(pool') = {}
             /\ OtherEntries(pool') = OtherEntries(pool)]_vars

TrueSpellings ==
    {<<a, b, c, d>> : a \in {"t", "T"}, b \in {"r", "R"}, c \in {"u", "U"}, d \in {"e", "E"}}

\* C8: for vertex_express_api_key and google_credentials_json, an authorized
\* update with the empty string or "true" in any letter case returns success
\* and changes nothing: not the settings, the Express key list, the pool or the
\* fallback client, and it starts no reinitialization and no refresh.
C8_SentinelIsNoop ==
    [][\A h \in Handlers :
          (/\ Takes(h)
           /\ Authorized(req'[h])
           /\ req'[h].key \in SentinelKeys
           /\ req'[h].value.t = "str"
           /\ (req'[h].value.s = <<>> \/ req'[h].value.s \in TrueSpellings))
          => /\ pc'[h] = "done"
             /\ status'[h] = 200
             /\ settings' = settings
             /\ VERTEX_EXPRESS_API_KEY_VAL' = VERTEX_EXPRESS_API_KEY_VAL
             /\ pool' = pool
             /\ fallback_client' = fallback_client
             /\ ~Has(events'[h], "reinit")
             /\ ~Has(events'[h], "refresh")]_vars

\* C8's case: "True" sent for the credential blob while the pool holds an entry
\* the blob loaded and a client is published
C8_Witness ==
    \E h \in Handlers :
        /\ pc[h] = "done"
        /\ status[h] = 200
        /\ req[h].key = "google_credentials_json"
        /\ req[h].value = JStr(<<"T", "r", "u", "e">>)
        /\ credential_manager = "pool"
        /\ EnvEntries(pool) # {}
        /\ fallback_client # NoClient

SideEffectFailures ==
    {"reinit_failed", "reinit_raised", "refresh_failed", "refresh_raised", "mirror_raised"}

\* The value an accepted request writes to its setting
Written(r) ==
    CASE r.key \in BoolKeys -> r.value.b
      [] r.key \in IntKeys -> PyInt(r.value).v
      [] r.key = "fake_streaming_interval" -> PyFloat(r.value).v
      [] OTHER -> r.value.s

\* C9: once a handler has written its value, a side effect that fails (the
\* reinitialization returning failure or raising, the refresh failing or
\* raising, the mirroring raising) neither undoes the write nor changes the
\* result: the setting holds the written value and the handler ends as 200.
C9_SideEffectFailureKeepsWrite ==
    \A h \in Handlers :
        (\E e \in SideEffectFailures : Has(events[h], e))
        => /\ settings[SettingName(req[h].key)] = Written(req[h])
           /\ pc[h] = "done" => status[h] = 200

\* C9's case: the reinitialization raised, then the refresh raised
C9_Witness ==
    \E h \in Handlers :
        /\ pc[h] = "done"
        /\ status[h] = 200
        /\ Has(events[h], "reinit_raised")
        /\ Has(events[h], "refresh_raised")
        /\ settings.GOOGLE_CREDENTIALS_JSON = <<"{A}", ",", "{B}">>

\* C10: the published fallback client is never taken away: a usable handle
\* stays usable (the old one, then the new one) through every step of an
\* update.
C10_HandleNeverInvalidated ==
    [][fallback_client # NoClient => fallback_client' # NoClient]_vars

\* C11: a google_credentials_json update does not wait for its reinitialization:
\* while the reinitialization is still running, the request's success response
\* is already there.
C11_ResponseBeforeReinitEnds ==
    \A h \in Handlers :
        (req[h].key = "google_credentials_json" /\ pc[h] \in {"reinit", "publish"})
        => status[h] = 200

\* The calls by which update_config invokes a side effect of a key
SideEffectCalls ==
    {"reset_client", "clear_pool", "load_pool", "reinit", "refresh", "mirror_ok",
     "mirror_raised"}

\* C12: within one update, save_settings is called only after the key's side
\* effects: no side effect is invoked after a call of save_settings.
C12_SaveAfterSideEffects ==
    \A h \in Handlers :
        \A i, j \in DOMAIN events[h] :
            (i < j /\ events[h][i] = "save") => events[h][j] \notin SideEffectCalls

\* The step in which handler h reaches the end of update_config
Ends(h) == pc[h] # "done" /\ pc'[h] = "done"

\* Some call of save_settings comes after the (only) write of the log
SaveAfterWrite(evs) ==
    \E i, j \in DOMAIN evs : i < j /\ evs[i] = "write" /\ evs[j] = "save"

\* C13: a request that ends as 200 has called save_settings, which stored the
\* whole SettingsStore, after its write, so that the snapshot holds the value it
\* applied; a request that ends as 400, 401 or 422 has not called it, and leaves
\* the persisted snapshot as it was.
C13_SuccessPersistsRejectionDoesNot ==
    [][\A h \in Handlers :
          Ends(h) =>
              /\ status'[h] = 200 =>
                     /\ Has(events'[h], "save")
                     /\ persisted' = settings'
                     /\ Has(events'[h], "write") =>
                            /\ SaveAfterWrite(events'[h])
                            /\ persisted'[SettingName(req'[h].key)] = Written(req'[h])
              /\ status'[h] \in {400, 401, 422} =>
                     /\ ~Has(events'[h], "save")
                     /\ persisted' = persisted]_vars

\* C13's case: max_retry_num set to 2 and persisted
C13_Witness ==
    \E h \in Handlers :
        /\ pc[h] = "done"
        /\ status[h] = 200
        /\ req[h].key = "max_retry_num"
        /\ req[h].value = JInt(2)
        /\ events[h] = <<"write", "save">>
        /\ persisted.MAX_RETRY_NUM = 2

\* The step in which get_dashboard_data returns or raises
DashEnds == dash.pc # "done" /\ dash'.pc = "done"

IsRead(e) == \E i \in DOMAIN SnapshotReads : SnapshotReads[i] = e

\* The three cleanups appear in the log in their order, before every read
ReadsAfterCleanups(log) ==
    \E a, b, c \in DOMAIN log :
        /\ a < b /\ b < c
        /\ log[a] = "maybe_cleanup"
        /\ log[b] = "clean_expired"
        /\ log[c] = "clean_completed"
        /\ \A i \in DOMAIN log : IsRead(log[i]) => c < i

\* C14: a snapshot build reads its counters only after the statistics cleanup,
\* the cache expiry cleanup and the pruning of completed tasks, made in this
\* order; so the snapshot it returns counts no stale bucket, no expired cache
\* entry and no completed task.
C14_CleanupsBeforeReads ==
    [][/\ (\E i \in DOMAIN dash'.log : IsRead(dash'.log[i])) => ReadsAfterCleanups(dash'.log)
       /\ (DashEnds /\ dash'.status = 200) =>
              /\ ReadsAfterCleanups(dash'.log)
              /\ dash'.snapshot.last_24h_calls =
                     get_calls_last_hour(api_stats_manager') + api_stats_manager'.day.calls
              /\ dash'.snapshot.cache_entries = response_cache'.live
              /\ dash'.snapshot.active_done = 0
              /\ dash'.snapshot.active_count = active_requests'.pending]_vars

\* C14's case: a snapshot built over statistics with a stale bucket, a cache with
\* an expired entry and a tracker with a completed task
C14_Witness ==
    /\ dash.pc = "done"
    /\ dash.status = 200
    /\ dash.log = <<"maybe_cleanup", "clean_expired", "clean_completed">> \o SnapshotReads
    /\ dash.snapshot.last_24h_calls = 3
    /\ dash.snapshot.cache_entries = 1
    /\ dash.snapshot.active_count = 1
    /\ nrec = 0
    /\ reset.pc = "idle"
    /\ nreq = 1

\* The dashboard's globals are as lifespan's call of init_dashboard_router
\* leaves them
StartedByLifespan ==
    /\ response_cache_manager = LifespanWiring.response_cache_manager
    /\ active_requests_manager = LifespanWiring.active_requests_manager
    /\ credential_manager = LifespanWiring.credential_manager

\* C15: in the application as main.py starts it, a GET /dashboard-data that
\* follows an accepted update of enable_vertex to true succeeds, and its
\* snapshot reports enable_vertex as true.
C15_SnapshotEchoesEnableVertex ==
    [][(/\ DashEnds
        /\ StartedByLifespan
        /\ settings.ENABLE_VERTEX = TRUE
        /\ pc[1] = "idle")
       => /\ dash'.status = 200
          /\ dash'.snapshot.enable_vertex = TRUE]_vars

\* C15 with all three managers handed to init_dashboard_router: every request
\* succeeds and echoes the settings as they are when it reads them.
C15_FullWiringSnapshotEchoes ==
    [][(DashEnds /\ response_cache_manager # "None" /\ active_requests_manager # "None")
       => /\ dash'.status = 200
          /\ dash'.snapshot.enable_vertex = settings.ENABLE_VERTEX
          /\ dash'.snapshot.max_retry_num = settings.MAX_RETRY_NUM
          /\ dash'.snapshot.fake_streaming = settings.FAKE_STREAMING]_vars

\* C16: an authorized request whose key no branch of update_config recognizes
\* ends as 400 and changes no setting, no pool entry and not the fallback
\* client (nor the mirror, the Express key list or the persisted snapshot).
C16_UnknownKeyIsUnsupported ==
    [][\A h \in Handlers :
          (/\ Takes(h)
           /\ Authorized(req'[h])
           /\ req'[h].key \notin KnownKeys)
          => /\ pc'[h] = "done"
             /\ status'[h] = 400
             /\ settings' = settings
             /\ vertex_config' = vertex_config
             /\ VERTEX_EXPRESS_API_KEY_VAL' = VERTEX_EXPRESS_API_KEY_VAL
             /\ pool' = pool
             /\ fallback_client' = fallback_client
             /\ persisted' = persisted]_vars

\* C16's case: the key "bogus" with a value that every integer key would accept
C16_Witness ==
    \E h \in Handlers :
        /\ pc[h] = "done"
        /\ status[h] = 400
        /\ Authorized(req[h])
        /\ req[h].key = "bogus"
        /\ req[h].value = JInt(2)

\* The step in which reset_stats serves a request (reset'.password)
ResetTaken == reset.pc = "idle" /\ reset'.pc = "done"

\* Every calls_last / tokens_last query returns 0
AllQueriesZero(b) ==
    /\ get_calls_last_minute(b) = 0
    /\ get_calls_last_hour(b) = 0
    /\ get_calls_last_24h(b) = 0
    /\ get_tokens_last_minute(b) = 0
    /\ get_tokens_last_hour(b) = 0
    /\ get_tokens_last_24h(b) = 0

\* C17: reset_stats clears the statistics exactly when the password verifies:
\* then it ends as 200 and all six queries return 0; with a missing password it
\* ends as 400, with a non-string one as 422, with a wrong one as 401, and in
\* these cases every bucket is left as it was.
C17_ResetOnlyWhenVerified ==
    [][ResetTaken =>
          LET password == reset'.password IN
          IF password = JStr(WebPassword)
          THEN /\ reset'.status = 200
               /\ AllQueriesZero(api_stats_manager')
          ELSE /\ reset'.status \in {400, 401, 422}
               /\ password \in {JNull, JStr(<<>>)} => reset'.status = 400
               /\ password = JInt(1) => reset'.status = 422
               /\ (password.t = "str" /\ password.s # <<>>) => reset'.status = 401
               /\ api_stats_manager' = api_stats_manager]_vars

\* C17's case: a snapshot had reported five calls (a recorded one among them)
\* when the reset cleared every bucket
C17_Witness ==
    /\ reset.pc = "done"
    /\ reset.status = 200
    /\ nrec = 1
    /\ dash.pc = "done"
    /\ dash.status = 200
    /\ dash.snapshot.minute_calls = 2
    /\ dash.snapshot.last_24h_tokens = 7
    /\ AllQueriesZero(api_stats_manager)

\* The JSON objects of a blob that is one object or a comma-separated list
BlobObjects(s) ==
    IF NeitherShape(s) THEN {}
    ELSE {Strip(Split(s, ",")[i])[1] : i \in DOMAIN Split(s, ",")}

\* Every b of the log has an a before it
Before(evs, a, b) ==
    \A j \in DOMAIN evs : evs[j] = b => \E i \in DOMAIN evs : i < j /\ evs[i] = a

ReinitEnds == {"publish", "reinit_failed", "reinit_raised"}

\* The order of the calls of one credential-blob update
BlobStepsInOrder(evs) ==
    /\ \A j \in DOMAIN evs :
           evs[j] \in SideEffectCalls => \E i \in DOMAIN evs : i < j /\ evs[i] = "write"
    /\ Before(evs, "clear_pool", "load_pool")
    /\ credential_manager = "pool" => Before(evs, "load_pool", "reinit")
    /\ \A j \in DOMAIN evs :
           evs[j] = "refresh" =>
               \E i, k \in DOMAIN evs :
                   i < k /\ k < j /\ evs[i] = "reinit" /\ evs[k] \in ReinitEnds

\* C18: an accepted google_credentials_json update writes the setting first,
\* then reloads the pool (clear, then load), then reinitializes, then refreshes:
\* when the reinitialization starts, the setting holds the blob and the attached
\* pool's blob-loaded entries are exactly the blob's objects; the refresh starts
\* only from a reinitialization that has ended.
C18_BlobUpdateStepsInOrder ==
    [][\A h \in Handlers :
          (req'[h].key = "google_credentials_json" /\ Has(events'[h], "write"))
          => /\ BlobStepsInOrder(events'[h])
             /\ (Takes(h) /\ pc'[h] = "reinit") =>
                    /\ settings'.GOOGLE_CREDENTIALS_JSON = req'[h].value.s
                    /\ credential_manager = "pool" =>
                           /\ Has(events'[h], "load_pool")
                           /\ EnvEntries(pool') =
                                  {Entry(o, "EnvironmentBlob") :
                                      o \in BlobObjects(req'[h].value.s)}
             /\ (pc[h] # "refresh" /\ pc'[h] = "refresh") =>
                    pc[h] \in {"reinit", "publish"}]_vars

\* C18's case: an update of an attached pool that has gone through every step
C18_Witness ==
    \E h \in Handlers :
        /\ credential_manager = "pool"
        /\ pc[h] = "done"
        /\ status[h] = 200
        /\ req[h].key = "google_credentials_json"
        /\ ObjectCount(req[h].value.s) = 3
        /\ events[h] = <<"write", "reset_client", "clear_pool", "load_pool", "save",
                         "reinit", "build", "publish", "refresh", "refresh_ok", "save">>

RECURSIVE TrimmedNonEmpty(_)
\* The fragments trimmed, without the blank ones, in their order
TrimmedNonEmpty(frags) ==
    IF frags = <<>> THEN <<>>
    ELSE (IF Strip(Head(frags)) = <<>> THEN <<>> ELSE <<Strip(Head(frags))>>)
             \o TrimmedNonEmpty(Tail(frags))

\* C19: an accepted vertex_express_api_key update (a string other than "" and
\* "true") stores as Express key list the comma-separated fragments of the
\* value in their order, each trimmed, none empty, and calls the model-cache
\* refresh.
C19_ExpressKeysTrimmedNonEmpty ==
    [][\A h \in Handlers :
          (/\ Takes(h)
           /\ Authorized(req'[h])
           /\ req'[h].key = "vertex_express_api_key"
           /\ req'[h].value.t = "str"
           /\ req'[h].value.s # <<>>
           /\ req'[h].value.s \notin TrueSpellings)
          => LET keys == VERTEX_EXPRESS_API_KEY_VAL' IN
             /\ keys = TrimmedNonEmpty(Split(req'[h].value.s, ","))
             /\ \A i \in DOMAIN keys :
                    /\ keys[i] # <<>>
                    /\ Head(keys[i]) # " "
                    /\ keys[i][Len(keys[i])] # " "
                    /\ \A k \in DOMAIN keys[i] : keys[i][k] # ","
             /\ settings'.VERTEX_EXPRESS_API_KEY = req'[h].value.s
             /\ pc'[h] = "refresh"
             /\ Has(events'[h], "refresh")]_vars

\* C19's case: "a, , b" stored as the two keys a and b, the refresh under way
C19_Witness ==
    \E h \in Handlers :
        /\ pc[h] = "refresh"
        /\ req[h].key = "vertex_express_api_key"
        /\ req[h].value = JStr(<<"a", ",", " ", ",", " ", "b">>)
        /\ VERTEX_EXPRESS_API_KEY_VAL = <<(<<"a">>), (<<"b">>)>>

\* C20: an accepted fake_streaming update leaves the flag of the secondary
\* namespace equal to the value it stored, and no other step changes either
\* flag: the two namespaces agree after any sequence of updates.
C20_FakeStreamingMirrored ==
    [][/\ \A h \in Handlers :
              (/\ Takes(h)
               /\ Authorized(req'[h])
               /\ req'[h].key = "fake_streaming"
               /\ req'[h].value.t = "bool")
              => /\ status'[h] = 200
                 /\ settings'.FAKE_STREAMING = req'[h].value.b
                 /\ vertex_config'.FAKE_STREAMING_ENABLED = req'[h].value.b
       /\ settings.FAKE_STREAMING = vertex_config.FAKE_STREAMING_ENABLED
              => settings'.FAKE_STREAMING = vertex_config'.FAKE_STREAMING_ENABLED]_vars

\* C20's case: false stored and mirrored although update_config() raised
C20_Witness ==
    \E h \in Handlers :
        /\ pc[h] = "done"
        /\ status[h] = 200
        /\ req[h].key = "fake_streaming"
        /\ req[h].value = JBool(FALSE)
        /\ Has(events[h], "mirror_raised")
        /\ settings.FAKE_STREAMING = FALSE
        /\ vertex_config.FAKE_STREAMING_ENABLED = FALSE

\* A value int() cannot take at all: null (or no value), a list, an object
Uncoercible(v) == v.t \in {"null", "list"}

\* C21: for an integer key, an authorized update whose value int() cannot take
\* at all ends as 422, not as 500, and leaves the key's setting as it was.
C21_UncoercibleIsInvalidType ==
    [][\A h \in Handlers :
          (/\ Takes(h)
           /\ Authorized(req'[h])
           /\ req'[h].key \in IntKeys
           /\ Uncoercible(req'[h].value))
          => /\ status'[h] = 422
             /\ settings'[SettingName(req'[h].key)] = settings[SettingName(req'[h].key)]]_vars

\* C22: in the application as main.py starts it, the pool update_config reloads
\* and hands to the reinitialization is the pool of the application state: an
\* accepted blob's objects become that pool's blob-loaded entries, and the
\* client a reinitialization builds is built from that pool.
C22_DashboardUsesAppStatePool ==
    [][\A h \in Handlers :
          /\ (Takes(h) /\ StartedByLifespan /\ pc'[h] = "reinit") =>
                 EnvEntries(pool') =
                     {Entry(o, "EnvironmentBlob") : o \in BlobObjects(req'[h].value.s)}
          /\ (StartedByLifespan /\ pc[h] = "reinit" /\ pc'[h] = "publish") =>
                 building'[h].creds = {e.payload : e \in pool}]_vars

\* C23: with a pool attached, once no update is in flight, a published fallback
\* client is one built from the pool as the last applied blob left it: an
\* earlier update's slower reinitialization has not put its own client over
\* the later one's.
C23_LastBlobClientWins ==
    (/\ credential_manager = "pool"
     /\ \A h \in Handlers : pc[h] \in {"idle", "done"}
     /\ fallback_client # NoClient)
    => fallback_client.creds = {e.payload : e \in pool}

\* Contents a secret setting may have
SecretValues == {<<>>, <<"{A}">>, <<"{B}">>, <<"a", "b">>, <<"2">>}

\* C24: the snapshot depends on GOOGLE_CREDENTIALS_JSON and
\* VERTEX_EXPRESS_API_KEY only through whether each is empty: the snapshot a
\* request returns is, field for field, the one it would have returned from the
\* same state with any other contents of the two secrets of the same emptiness.
C24_SnapshotHidesSecrets ==
    [][(DashEnds /\ dash'.status = 200) =>
          \A g, k \in SecretValues :
              (/\ (g = <<>>) <=> (settings.GOOGLE_CREDENTIALS_JSON = <<>>)
               /\ (k = <<>>) <=> (settings.VERTEX_EXPRESS_API_KEY = <<>>))
              => Snapshot(api_stats_manager', response_cache', active_requests',
                          credential_manager, pool,
                          [settings EXCEPT !.GOOGLE_CREDENTIALS_JSON = g,
                                           !.VERTEX_EXPRESS_API_KEY = k])
                     = dash'.snapshot]_vars

\* C24's case: a snapshot returned while both secrets are set
C24_Witness ==
    /\ dash.pc = "done"
    /\ dash.status = 200
    /\ settings.GOOGLE_CREDENTIALS_JSON = <<"{A}">>
    /\ settings.VERTEX_EXPRESS_API_KEY = <<"a", "b">>
    /\ dash.snapshot.google_credentials_json = TRUE
    /\ dash.snapshot.vertex_express_api_key = TRUE
    /\ dash.snapshot.credentials_count = 2

====
